---- MODULE Spec2Model ----
(***************************************************************************)
(* Model of the RoosterScan Express server: the pose-analysis route        *)
(* (POST /api/pose/detect, server/routes/pose.ts) and the image upload     *)
(* route (POST /api/upload, server/routes/upload.ts).                      *)
(*                                                                         *)
(* Text is modelled as a sequence of tokens.  The standard output of the   *)
(* analysis process is a sequence over "{", "}", a line of log text and a  *)
(* complete flat JSON object; a fixed message of the server is one token.  *)
(* JavaScript values are strings: "true", "false", "undefined".            *)
(***************************************************************************)
EXTENDS Integers, Sequences, FiniteSets, TLC

\* ---------------------------------------------------------------- bounds
NumReqs == 2
MaxIO == 2
\* rows the database holds at most, over all tables
MaxRows == 3
\* the frames the Scan page captures at most
MaxFrames == 3
\* the startStream calls a CameraManager gets at most
MaxStreams == 4

Reqs == 1..NumReqs
Ids == 1..MaxRows

\* ------------------------------------------------------- program constants
\* multer limits, in MB
PoseFileSizeLimit == 10
UploadFileSizeLimit == 5

\* ------------------------------------------------------------ JS values
undefined == "undefined"
JsTrue == "true"
JsFalse == "false"
\* an absent text value; no token of any text is "undefined"
undefinedText == <<"undefined">>

\* JavaScript truthiness of a text value: undefined and "" are falsy
TruthyText(t) == t # undefinedText /\ t # <<>>

\* mutant: a ?? b, only undefined gives way to the default
OrText_Nullish(a, b) == IF a # undefinedText THEN a ELSE b

\* a || b on text values
OrText(a, b) == IF TruthyText(a) THEN a ELSE b

\* a text or number value that is null
nullText == <<"null">>

\* a space, the white space of the texts
SP == " "

\* String.prototype.trim
trim(t) ==
  LET inked == {i \in 1..Len(t) : t[i] # SP}
  IN IF inked = {} THEN <<>>
     ELSE SubSeq(t, CHOOSE i \in inked : \A k \in inked : i <= k,
                    CHOOSE j \in inked : \A k \in inked : j >= k)

\* t?.trim()
trimOpt(t) == IF t = undefinedText THEN undefinedText ELSE trim(t)

\* numbers of the request bodies are written as one token; 0 is falsy
Num0 == <<"0">>
TruthyNum(n) == n \notin {undefinedText, nullText, Num0}

\* a || b on numbers
OrNum(a, b) == IF TruthyNum(a) THEN a ELSE b

\* ------------------------------------------------------------ the inputs
NoFile == [originalname |-> <<>>, mimetype |-> <<"none", "none">>, size |-> 0,
           content |-> "none"]

\* the multipart bodies a client sends: mimetype is <<type, subtype>>,
\* size is in MB, originalname is <<base>> or <<base, extension>>
Uploads ==
  { NoFile,
    [originalname |-> <<"a", ".png">>, mimetype |-> <<"image", "png">>,
     size |-> 1, content |-> "imgA"],
    [originalname |-> <<"a", ".png">>, mimetype |-> <<"image", "png">>,
     size |-> 1, content |-> "imgB"],
    [originalname |-> <<"c", ".txt">>, mimetype |-> <<"text", "plain">>,
     size |-> 1, content |-> "txtC"],
    [originalname |-> <<"d">>, mimetype |-> <<"image", "jpeg">>,
     size |-> 11, content |-> "imgD"] }

\* req.file: what multer tells the handler about the upload
FileInfo(file) ==
  [originalname |-> file.originalname, mimetype |-> file.mimetype, size |-> file.size]

Routes == {"pose", "upload"}

\* tokens of the child's standard output
LB == "{"
RB == "}"
\* a line of log text without braces
TXT == "log"
\* the text of one JSON object without nested objects: { members }
OBJ == "{members}"
OutTokens == {LB, RB, TXT, OBJ}
ErrTokens == {"trace"}

\* what the members of an OBJ token say
Payloads ==
  [success : {JsTrue}, error : {undefinedText}, stage : {undefinedText},
   health_assessment : {"healthy", "bumblefoot", "injured"}]
  \cup
  { [success |-> JsFalse, error |-> e[1], stage |-> e[2], health_assessment |-> undefined] :
      e \in { <<undefinedText, undefinedText>>,
              <<<<>>, <<"pose_detection">>>>,
              <<<<"model crashed">>, <<>>>>,
              <<<<"model crashed">>, <<"pose_detection">>>> } }

\* the value of JSON.parse("{}")
EmptyObject == [success |-> undefined, error |-> undefinedText, stage |-> undefinedText,
                health_assessment |-> undefined]

\* ------------------------------------------------------------ responses
EmptyBody == [success |-> undefined, error |-> undefinedText, stage |-> undefinedText,
              keypoints |-> <<>>, health_assessment |-> undefined,
              risk_level |-> undefined, recommendations |-> <<>>, url |-> undefined]

\* res.status(status).json(body)
Json(status, body) == [status |-> status, json |-> TRUE, body |-> body]

\* the page Express's default error handler sends for next(err): text/html
Html(status) == [status |-> status, json |-> FALSE, body |-> EmptyBody]

Failure(msg) == [EmptyBody EXCEPT !.success = JsFalse, !.error = msg]

MockRecommendations ==
  << "AI models not deployed - showing mock data",
     "Upload successful - frontend integration working",
     "Deploy AI models to Railway to enable real analysis" >>

\* confidence in percent
MockKeypoints ==
  << [name |-> "beak_tip", x |-> 100, y |-> 50, confidence |-> 90],
     [name |-> "eye", x |-> 120, y |-> 60, confidence |-> 85],
     [name |-> "comb_top", x |-> 110, y |-> 30, confidence |-> 80] >>

\* mutant: the last placeholder keypoint is missing
MockResponse_TwoKeypoints ==
  Json(200, [EmptyBody EXCEPT !.success = JsTrue, !.keypoints = SubSeq(MockKeypoints, 1, 2),
                              !.health_assessment = "healthy", !.risk_level = "low",
                              !.recommendations = MockRecommendations])

MockResponse ==
  Json(200, [EmptyBody EXCEPT !.success = JsTrue, !.keypoints = MockKeypoints,
                              !.health_assessment = "healthy", !.risk_level = "low",
                              !.recommendations = MockRecommendations])

\* -------------------------------------------------------- pure functions
\* mutant: the filter accepts every MIME type
IsImage_AcceptAll(mimetype) == Len(mimetype) = 2

\* file.mimetype.startsWith('image/')
IsImage(mimetype) == mimetype[1] = "image"

\* path.extname(file.originalname)
extname(originalname) ==
  IF Len(originalname) >= 2 THEN originalname[Len(originalname)] ELSE ""

\* multer.diskStorage filename: fieldname + '-' + Date.now() + ext
filename(file, t) ==
  LET ext == IF extname(file.originalname) # "" THEN extname(file.originalname) ELSE ".jpg"
  IN <<"image", t, ext>>

\* output.match(/\{.*\}/s): from the first "{" to the last "}", <<>> for null
jsonMatch(out) ==
  LET opens == {i \in 1..Len(out) : out[i] \in {LB, OBJ}}
      closes == {i \in 1..Len(out) : out[i] \in {RB, OBJ}}
  IN IF opens = {} \/ closes = {} THEN <<>>
     ELSE LET i == CHOOSE k \in opens : \A m \in opens : k <= m
              j == CHOOSE k \in closes : \A m \in closes : k >= m
          IN IF i <= j THEN SubSeq(out, i, j) ELSE <<>>

\* JSON.parse accepts s: over these tokens the JSON texts are {} and { members }
ValidJSON(s) == s = <<LB, RB>> \/ s = <<OBJ>>

\* JSON.parse(s) of a valid s
JSONparse(s, members) == IF s = <<OBJ>> THEN members ELSE EmptyObject

\* injury_analysis.risk_level
risk_level(parsed) == IF parsed.health_assessment = "injured" THEN "high" ELSE "low"

\* the response built from a parsed result
ResultResponse(parsed) ==
  IF parsed.success = JsTrue
  THEN Json(200, [EmptyBody EXCEPT !.success = JsTrue,
                                   !.health_assessment = parsed.health_assessment,
                                   !.risk_level = risk_level(parsed)])
  ELSE Json(500, [EmptyBody EXCEPT !.success = JsFalse,
                    !.error = OrText(parsed.error, <<"Sequential analysis failed">>),
                    !.stage = OrText(parsed.stage, <<"unknown">>)])

ParseFailure(message, out) ==
  Json(500, Failure(<<"Failed to parse sequential analysis results: ", message,
                      ". Output: ">> \o out))

\* mutant: the failure of a non-zero exit does not carry stderr
CloseResponse_NoStderr(code, out, err, members) ==
  IF code # 0 THEN Json(500, Failure(<<"Pose detection failed: ">>))
  ELSE LET m == jsonMatch(out)
       IN IF m = <<>> THEN ParseFailure("No JSON found in output", out)
          ELSE IF ~ValidJSON(m) THEN ParseFailure("Unexpected token", out)
          ELSE ResultResponse(JSONparse(m, members))

\* mutant: no check of a null match, jsonMatch[0] throws a TypeError instead
CloseResponse_NoNullCheck(code, out, err, members) ==
  IF code # 0 THEN Json(500, Failure(<<"Pose detection failed: ">> \o err))
  ELSE LET m == jsonMatch(out)
       IN IF m = <<>> THEN ParseFailure("Cannot read properties of null", out)
          ELSE IF ~ValidJSON(m) THEN ParseFailure("Unexpected token", out)
          ELSE ResultResponse(JSONparse(m, members))

\* what python.on('close') answers after the cleanup
CloseResponse(code, out, err, members) ==
  IF code # 0 THEN Json(500, Failure(<<"Pose detection failed: ">> \o err))
  ELSE LET m == jsonMatch(out)
       IN IF m = <<>> THEN ParseFailure("No JSON found in output", out)
          ELSE IF ~ValidJSON(m) THEN ParseFailure("Unexpected token", out)
          ELSE ResultResponse(JSONparse(m, members))

\* ------------------------------------------------ the data API: inputs
\* the development user every request is resolved to
DevUserId == "00000000-0000-0000-0000-000000000001"

\* the people who hold accounts
Users == {"A", "B"}

\* an Authorization header is <<scheme, sub, signature>>, <<>> when absent
NoAuth == <<>>
Bearer(user) == <<"Bearer", user, "valid">>
\* the headers requireAuth turns away, and the ones it lets through
BadAuth == {NoAuth, <<"Basic", "A", "valid">>, <<"Bearer", "A", "forged">>}
GoodAuth == {Bearer(u) : u \in Users}
AuthHeaders == BadAuth \cup GoodAuth
\* the callers of the open routes: anyone, with or without a token
ReadAuth == {NoAuth} \cup GoodAuth

\* who sent the request: the subject of a verifiable bearer token
Caller(auth) ==
  IF Len(auth) = 3 /\ auth[1] = "Bearer" /\ auth[3] = "valid" THEN auth[2] ELSE "anonymous"

NoBody == [none |-> TRUE]

\* the request as the server receives it
Request(route, auth, id, body) == [route |-> route, auth |-> auth, id |-> id, body |-> body]

\* CreateRoosterRequest: name, a trimmed optional text (breed), a number
\* (ageMonths) and the status
RoosterBodies ==
  { [name |-> undefinedText, breed |-> undefinedText, ageMonths |-> undefinedText,
     status |-> undefinedText],
    [name |-> <<>>, breed |-> undefinedText, ageMonths |-> undefinedText,
     status |-> undefinedText],
    [name |-> <<SP>>, breed |-> <<"Kelso">>, ageMonths |-> <<"12">>,
     status |-> <<"sold">>],
    [name |-> <<SP, "Red">>, breed |-> <<"Kelso">>, ageMonths |-> Num0,
     status |-> undefinedText] }

\* UpdateRoosterRequest
UpdateBodies ==
  { [name |-> <<SP>>, breed |-> <<"Asil", SP>>, ageMonths |-> Num0,
     status |-> undefinedText] }

\* CreateScanRequest: confidences are in percent, 0 where the field is absent
NoResults == [present |-> FALSE, pose_confidence |-> 0, injury_classification |-> FALSE]
ScanBodies ==
  { [results |-> NoResults, injuries |-> undefinedText],
    [results |-> [present |-> TRUE, pose_confidence |-> 0, injury_classification |-> FALSE],
     injuries |-> <<>>],
    [results |-> [present |-> TRUE, pose_confidence |-> 90, injury_classification |-> TRUE],
     injuries |-> <<"limping">>] }

\* CreateReportRequest: an id of 0 is an absent one; the rooster named is
\* one registered before the scan
ReportBodies ==
  {b \in [scanId : Ids, roosterId : Ids, title : {<<"Checkup">>}] : b.scanId > b.roosterId}
  \cup { [scanId |-> 0, roosterId |-> 1, title |-> <<"Checkup">>],
         [scanId |-> 1, roosterId |-> 0, title |-> <<"Checkup">>],
         [scanId |-> 1, roosterId |-> 1, title |-> <<SP>>] }

\* ------------------------------------------------ the data API: replies
\* res.status(status).json({data, success}) and .json({error, success})
ApiData(status, data) == [status |-> status, success |-> JsTrue, error |-> undefinedText,
                          data |-> data]
ApiError(status, msg) == [status |-> status, success |-> JsFalse, error |-> msg,
                          data |-> <<>>]
NoReply == [status |-> 0, success |-> undefined, error |-> undefinedText, data |-> <<>>]

\* ------------------------------------------------ the data API: functions
\* getUserIdFromAuth: the same identifier on every path
getUserIdFromAuth(auth) == DevUserId

\* authHeader?.startsWith('Bearer ')
startsWithBearer(auth) == Len(auth) > 0 /\ auth[1] = "Bearer"

\* jwt.verify(token, JWT_SECRET) returns
jwtVerify(auth) == auth[3] = "valid"

\* what passes for next()
PassOn == [status |-> -1, success |-> undefined, error |-> undefinedText, data |-> <<>>]

\* mutant: the token is decoded but not verified
requireAuth_NoVerify(auth) ==
  IF ~startsWithBearer(auth)
  THEN ApiError(401, <<"Authentication required. Provide Bearer token.">>)
  ELSE PassOn

\* requireAuth: the 401 it sends, or PassOn
requireAuth(auth) ==
  IF ~startsWithBearer(auth)
  THEN ApiError(401, <<"Authentication required. Provide Bearer token.">>)
  ELSE IF ~jwtVerify(auth) THEN ApiError(401, <<"Invalid or expired token.">>)
  ELSE PassOn

\* mutant: the name is tested without trimming
NameMissing_NoTrim(body) == ~TruthyText(body.name)

\* !body.name?.trim()
NameMissing(body) == ~TruthyText(trimOpt(body.name))

\* the row createRooster inserts; owner is who sent the request, which the
\* database does not know
roosterData(id, auth, body) ==
  [id |-> id, owner |-> Caller(auth), user_id |-> getUserIdFromAuth(auth),
   name |-> trim(body.name),
   breed |-> OrText(trimOpt(body.breed), nullText),
   age_months |-> OrNum(body.ageMonths, nullText),
   status |-> OrText(trimOpt(body.status), <<"active">>)]

\* the mapping of a roosters row to the API shape
mappedRooster(row) ==
  [shape |-> "camelCase", id |-> row.id, name |-> row.name, breed |-> row.breed,
   ageMonths |-> row.age_months, status |-> row.status]

\* a roosters row as the database returns it
rawRooster(row) ==
  [shape |-> "snake_case", id |-> row.id, user_id |-> row.user_id, name |-> row.name,
   breed |-> row.breed, age_months |-> row.age_months, status |-> row.status]

\* the row after update(updateData)
updateData(row, body) ==
  [row EXCEPT
     !.name = IF TruthyText(trimOpt(body.name)) THEN trim(body.name) ELSE @,
     !.breed = IF TruthyText(trimOpt(body.breed)) THEN trim(body.breed) ELSE @,
     !.age_months = IF body.ageMonths # undefinedText THEN body.ageMonths ELSE @,
     !.status = IF TruthyText(trimOpt(body.status)) THEN trim(body.status) ELSE @]

\* poseConfidence of createScan, in percent
poseConfidence(results) == IF results.pose_confidence # 0 THEN results.pose_confidence ELSE 75

\* mutant: the listed injuries are stored as severe ones
injuryDetections_Severe(body) ==
  LET listed == IF body.injuries = undefinedText THEN <<>>
                ELSE [i \in 1..Len(body.injuries) |->
                        [type |-> body.injuries[i],
                         confidence |-> poseConfidence(body.results),
                         source |-> "basic_scan", severity |-> "severe"]]
  IN IF body.results.injury_classification
     THEN Append(listed, [type |-> "classification_result",
                          confidence |-> poseConfidence(body.results),
                          source |-> "basic_scan", severity |-> undefined])
     ELSE listed

\* injuryDetections of createScan; no entry is given a severity
injuryDetections(body) ==
  LET listed == IF body.injuries = undefinedText THEN <<>>
                ELSE [i \in 1..Len(body.injuries) |->
                        [type |-> body.injuries[i],
                         confidence |-> poseConfidence(body.results),
                         source |-> "basic_scan", severity |-> undefined]]
  IN IF body.results.injury_classification
     THEN Append(listed, [type |-> "classification_result",
                          confidence |-> poseConfidence(body.results),
                          source |-> "basic_scan", severity |-> undefined])
     ELSE listed

scanData(id, auth, body) ==
  [id |-> id, owner |-> Caller(auth), user_id |-> getUserIdFromAuth(auth),
   injury_detections |-> injuryDetections(body),
   analysis_confidence |-> poseConfidence(body.results), status |-> "completed"]

\* the legacy severity as getScans computes it
severityOfDetections(dets) ==
  IF Len(dets) > 0
  THEN IF \E i \in 1..Len(dets) : dets[i].severity = "severe" THEN "high" ELSE "medium"
  ELSE "low"

\* the legacy severity as getScanById and createScan compute it
severityOfConfidence(c) == IF c > 80 THEN "high" ELSE IF c > 50 THEN "medium" ELSE "low"

\* the mapping of a scans row in getScans
listedScan(row) ==
  [id |-> row.id, userId |-> row.user_id, injuryDetections |-> row.injury_detections,
   analysisConfidence |-> row.analysis_confidence,
   severity |-> severityOfDetections(row.injury_detections)]

\* the mapping of a scans row in getScanById and createScan
mappedScan(row) ==
  [id |-> row.id, userId |-> row.user_id, injuryDetections |-> row.injury_detections,
   analysisConfidence |-> row.analysis_confidence,
   severity |-> severityOfConfidence(row.analysis_confidence)]

\* the number of entries of a scan flagged severe
severeCount(dets) == Cardinality({i \in 1..Len(dets) : dets[i].severity = "severe"})

\* mutant: the counts are not taken from the scan
reportData_NoCounts(id, auth, body, scan) ==
  [id |-> id, owner |-> Caller(auth), user_id |-> getUserIdFromAuth(auth),
   scan_id |-> body.scanId, rooster_id |-> body.roosterId, title |-> trim(body.title),
   total_injuries_detected |-> 0,
   high_priority_injuries |-> 0,
   status |-> "draft"]
reportData(id, auth, body, scan) ==
  [id |-> id, owner |-> Caller(auth), user_id |-> getUserIdFromAuth(auth),
   scan_id |-> body.scanId, rooster_id |-> body.roosterId, title |-> trim(body.title),
   total_injuries_detected |-> Len(scan.injury_detections),
   high_priority_injuries |-> severeCount(scan.injury_detections),
   status |-> "draft"]

mappedReport(row) ==
  [id |-> row.id, scanId |-> row.scan_id, roosterId |-> row.rooster_id,
   userId |-> row.user_id, title |-> row.title,
   totalInjuriesDetected |-> row.total_injuries_detected,
   highPriorityInjuries |-> row.high_priority_injuries, status |-> row.status]

\* the ids of a set, latest first: order('created_at', {ascending: false})
RECURSIVE LatestFirst(_)
LatestFirst(S) ==
  IF S = {} THEN <<>>
  ELSE LET m == CHOOSE i \in S : \A k \in S : i >= k
       IN <<m>> \o LatestFirst(S \ {m})

\* from(table).select('*').eq('user_id', userId): the ids of the rows
OwnedBy(table, userId) == {i \in DOMAIN table : table[i].user_id = userId}

\* mutant: the statement writes over the rows the table holds
Insert_Overwrites(table, row) == [i \in DOMAIN table \cup {row.id} |-> row]
\* a table after insert([row]), and after delete() of the rows ids
Insert(table, row) ==
  [i \in DOMAIN table \cup {row.id} |-> IF i = row.id THEN row ELSE table[i]]
Delete(table, ids) == [i \in DOMAIN table \ ids |-> table[i]]

\* ------------------------------------------------------------- the state
VARIABLES
  models,      \* the artifacts present on disk: "pose", "bumblefoot", "script"
  now,         \* Date.now() at the latest pose upload
  files,       \* the files in uploads/: path -> content
  bucket,      \* the objects in the 'images' storage bucket
  serverUp,    \* FALSE once an uncaught exception ended the process
  pc,          \* per request: "idle", "running" (child spawned), "done"
  req,         \* per request: the route and the multipart body
  imagePath,   \* per request: req.file.path, or NoPath
  output,      \* per request: captured stdout
  error,       \* per request: captured stderr
  exitCode,    \* per request: the exit code of the child, -1 before it closed
  result,      \* per request: the value JSON.parse returned, NoResult if none
  res,         \* per request: the responses sent
  handlerRan,  \* per request: the route handler was entered
  spawned,     \* per request: number of child processes spawned
  storageCalls, \* per request: number of object-storage uploads attempted
  io,          \* number of tokens the children have written so far
  connected    \* per request: its client still waits on an open connection

\* the database and the latest exchange of the data API
VARIABLES
  roosters,      \* the roosters table: id -> row
  scans,         \* the scans table: id -> row
  reports,       \* the health_reports table: id -> row
  nextId,        \* the id the database gives the next row
  apiReq,        \* the latest request of the data API
  apiRes,        \* the response it got
  apiHandlerRan, \* whether its route handler was entered
  storageError   \* whether a call it made to the database came back with an
                 \* error other than "no row found"

poseVars == <<models, now, files, bucket, serverUp, pc, req, imagePath, output, error,
              exitCode, result, res, handlerRan, spawned, storageCalls, io, connected>>
apiVars == <<roosters, scans, reports, nextId, apiReq, apiRes, apiHandlerRan,
             storageError>>

\* the client
VARIABLES
  scanPage,  \* the Scan page: React state, its timer and its requests
             \*   page              "scan" while the component is mounted,
             \*                     "results" after
             \*   cameraOn          useState(false)
             \*   isAnalyzing       useState(false)
             \*   liveResults       whether a result of the pose endpoint is held
             \*   frameCount        the frames analysed, as the page counts them
             \*   analysisInterval  whether the 2-second timer is set
             \*   tickSees          isAnalyzing as the closure the timer calls
             \*                     sees it
             \*   blobs             canvas.toBlob callbacks still to run
             \*   inFlight          fetches of /api/pose/detect awaiting their
             \*                     response
             \*   frames            frames handed to toBlob so far
             \*   saving            capture is past its analysis step, before
             \*                     its save
  camera     \* a CameraManager: its fields, the camera tracks, its calls
             \*   stream        this.stream: 0 for null, or the number of the
             \*                 MediaStream
             \*   videoElement  whether this.videoElement is set
             \*   isActive      this.state.isActive
             \*   liveTracks    the acquired streams whose tracks have not
             \*                 been stopped
             \*   acquired      the streams getUserMedia has given so far
             \*   pending       the startStream calls awaiting getUserMedia:
             \*                 for each, whether its videoElement argument is
             \*                 an element
             \*   disposed      dispose has removed the canvas

clientVars == <<scanPage, camera>>
vars == <<poseVars, apiVars, clientVars>>

NoPath == <<"none", 0, "">>
NoReq == [route |-> "none", file |-> FileInfo(NoFile)]
NoResult == [success |-> "none", error |-> undefinedText, stage |-> undefinedText,
             health_assessment |-> "none"]

Init ==
  /\ models \in SUBSET {"pose", "bumblefoot", "script"}
  /\ now = 0
  /\ files = <<>>
  /\ bucket = {}
  /\ serverUp = TRUE
  /\ pc = [r \in Reqs |-> "idle"]
  /\ req = [r \in Reqs |-> NoReq]
  /\ imagePath = [r \in Reqs |-> NoPath]
  /\ output = [r \in Reqs |-> <<>>]
  /\ error = [r \in Reqs |-> <<>>]
  /\ exitCode = [r \in Reqs |-> -1]
  /\ result = [r \in Reqs |-> NoResult]
  /\ res = [r \in Reqs |-> <<>>]
  /\ handlerRan = [r \in Reqs |-> FALSE]
  /\ spawned = [r \in Reqs |-> 0]
  /\ storageCalls = [r \in Reqs |-> 0]
  /\ io = 0
  /\ connected = [r \in Reqs |-> FALSE]
  /\ roosters = <<>>
  /\ scans = <<>>
  /\ reports = <<>>
  /\ nextId = 1
  /\ apiReq = Request("none", NoAuth, 0, NoBody)
  /\ apiRes = NoReply
  /\ apiHandlerRan = FALSE
  /\ storageError = FALSE
  /\ scanPage = [page |-> "scan", cameraOn |-> FALSE, isAnalyzing |-> FALSE,
                 liveResults |-> FALSE, frameCount |-> 0,
                 analysisInterval |-> FALSE, tickSees |-> FALSE, blobs |-> 0,
                 inFlight |-> 0, frames |-> 0, saving |-> FALSE]
  /\ camera = [stream |-> 0, videoElement |-> FALSE, isActive |-> FALSE,
               liveTracks |-> {}, acquired |-> 0, pending |-> <<>>,
               disposed |-> FALSE]

\* requests are numbered in the order they arrive
NextArrival(r) == pc[r] = "idle" /\ \A q \in Reqs : q < r => pc[q] # "idle"

\* the uploads directory after a file is written, and after one is removed
WriteFile(path, content) ==
  [p \in DOMAIN files \cup {path} |-> IF p = path THEN content ELSE files[p]]
RemoveFile(path) == [p \in DOMAIN files \ {path} |-> files[p]]

Respond(r, response) == res' = [res EXCEPT ![r] = Append(@, response)]

\* mutant: a second process is started for the same request
spawn_Twice(r) == spawned' = [spawned EXCEPT ![r] = @ + 2]

\* spawn('python', [script, imagePath, modelPath, bumblefootModelPath])
spawn(r) == spawned' = [spawned EXCEPT ![r] = @ + 1]

\* POST /api/pose/detect: upload.single('image'), then the handler up to the
\* first response or to the spawn of the analysis process; t is Date.now(),
\* the millisecond of the latest upload or a later one
PoseDetect(r, file, t) ==
  /\ serverUp
  /\ UNCHANGED <<apiVars, clientVars>>
  /\ NextArrival(r)
  /\ t \in {now, now + 1}
  \* only the storage engine reads the clock, and a later millisecond differs
  \* from this one only if a stored upload is named after this one
  /\ (file = NoFile \/ ~IsImage(file.mimetype)) => t = now
  /\ t # now => \E q \in Reqs : imagePath[q] # NoPath /\ imagePath[q][2] = now
  \* image contents are told apart only among the uploads stored together
  /\ file.content = "imgB" => \E p \in DOMAIN files : files[p] = "imgA"
  /\ now' = t
  /\ req' = [req EXCEPT ![r] = [route |-> "pose", file |-> FileInfo(file)]]
  /\ UNCHANGED <<models, bucket, serverUp, output, error, exitCode, result,
                 storageCalls, io>>
  /\ IF file = NoFile
     THEN \* req.file is undefined
          /\ handlerRan' = [handlerRan EXCEPT ![r] = TRUE]
          /\ Respond(r, Json(400, Failure(<<"No image file provided">>)))
          /\ pc' = [pc EXCEPT ![r] = "done"]
          /\ UNCHANGED <<files, imagePath, spawned, connected>>
     ELSE IF ~IsImage(file.mimetype)
     THEN \* fileFilter: cb(new Error(...)), nothing is stored
          /\ Respond(r, Html(500))
          /\ pc' = [pc EXCEPT ![r] = "done"]
          /\ UNCHANGED <<files, imagePath, handlerRan, spawned, connected>>
     ELSE IF file.size > PoseFileSizeLimit
     THEN \* LIMIT_FILE_SIZE: multer removes the partly written file
          /\ files' = RemoveFile(filename(file, t))
          /\ Respond(r, Html(500))
          /\ pc' = [pc EXCEPT ![r] = "done"]
          /\ UNCHANGED <<imagePath, handlerRan, spawned, connected>>
     ELSE /\ files' = WriteFile(filename(file, t), file.content)
          /\ imagePath' = [imagePath EXCEPT ![r] = filename(file, t)]
          /\ handlerRan' = [handlerRan EXCEPT ![r] = TRUE]
          /\ IF "pose" \notin models
             THEN /\ Respond(r, MockResponse)
                  /\ pc' = [pc EXCEPT ![r] = "done"]
                  /\ UNCHANGED <<spawned, connected>>
             ELSE IF "bumblefoot" \notin models
             THEN /\ Respond(r, Json(500, Failure(<<"Bumblefoot classification model not found">>)))
                  /\ pc' = [pc EXCEPT ![r] = "done"]
                  /\ UNCHANGED <<spawned, connected>>
             ELSE IF "script" \notin models
             THEN /\ Respond(r, Json(500, Failure(<<"Sequential analysis script not found">>)))
                  /\ pc' = [pc EXCEPT ![r] = "done"]
                  /\ UNCHANGED <<spawned, connected>>
             ELSE /\ spawn(r)
                  /\ pc' = [pc EXCEPT ![r] = "running"]
                  /\ connected' = [connected EXCEPT ![r] = TRUE]
                  /\ UNCHANGED res

\* python.stdout.on('data')
ChildStdout(r, tok) ==
  /\ serverUp
  /\ UNCHANGED <<apiVars, clientVars>>
  /\ pc[r] = "running"
  /\ io < MaxIO
  /\ output' = [output EXCEPT ![r] = Append(@, tok)]
  /\ io' = io + 1
  /\ UNCHANGED <<models, now, files, bucket, serverUp, pc, req, imagePath, error,
                 exitCode, result, res, handlerRan, spawned, storageCalls, connected>>

\* python.stderr.on('data')
ChildStderr(r, tok) ==
  /\ serverUp
  /\ UNCHANGED <<apiVars, clientVars>>
  /\ pc[r] = "running"
  /\ io < MaxIO
  /\ error' = [error EXCEPT ![r] = Append(@, tok)]
  /\ io' = io + 1
  /\ UNCHANGED <<models, now, files, bucket, serverUp, pc, req, imagePath, output,
                 exitCode, result, res, handlerRan, spawned, storageCalls, connected>>

\* the child could not be started: 'error' is emitted and nothing listens
ChildError(r) ==
  /\ serverUp
  /\ UNCHANGED <<apiVars, clientVars>>
  /\ pc[r] = "running"
  /\ output[r] = <<>> /\ error[r] = <<>>
  /\ serverUp' = FALSE
  \* the process is gone, and its sockets with it
  /\ connected' = [q \in Reqs |-> FALSE]
  /\ UNCHANGED <<models, now, files, bucket, pc, req, imagePath, output, error,
                 exitCode, result, res, handlerRan, spawned, storageCalls, io>>

\* mutant: the handler kills the child when the request's socket closes
ClientDisconnect_KillsChild(r) ==
  /\ serverUp
  /\ UNCHANGED <<apiVars, clientVars>>
  /\ pc[r] = "running"
  /\ connected[r]
  /\ connected' = [connected EXCEPT ![r] = FALSE]
  /\ pc' = [pc EXCEPT ![r] = "done"]
  /\ UNCHANGED <<models, now, files, bucket, serverUp, req, imagePath, output, error,
                 exitCode, result, res, handlerRan, spawned, storageCalls, io>>

\* the client goes away while the child runs: the handler listens to no
\* event of the request or its socket, the child and its listeners stay
ClientDisconnect(r) ==
  /\ serverUp
  /\ UNCHANGED <<apiVars, clientVars>>
  /\ pc[r] = "running"
  /\ connected[r]
  /\ connected' = [connected EXCEPT ![r] = FALSE]
  /\ UNCHANGED <<models, now, files, bucket, serverUp, pc, req, imagePath, output, error,
                 exitCode, result, res, handlerRan, spawned, storageCalls, io>>

\* JSON.parse returns a value for this exit code and output
Parses(code, out) == code = 0 /\ jsonMatch(out) # <<>> /\ ValidJSON(jsonMatch(out))

\* python.on('close'): code is the exit code, members what the members of
\* the OBJ token say (read only when the output is parsed)
ChildClose(r, code, members) ==
  /\ serverUp
  /\ UNCHANGED <<apiVars, clientVars>>
  /\ pc[r] = "running"
  /\ members # EmptyObject => /\ Parses(code, output[r])
                              /\ JSONparse(jsonMatch(output[r]), members) = members
  /\ pc' = [pc EXCEPT ![r] = "done"]
  \* the buffers of the closure are dropped with it
  /\ output' = [output EXCEPT ![r] = <<>>]
  /\ error' = [error EXCEPT ![r] = <<>>]
  /\ UNCHANGED <<models, now, bucket, req, imagePath, handlerRan, spawned, storageCalls,
                 io>>
  /\ IF imagePath[r] \in DOMAIN files
     THEN /\ files' = RemoveFile(imagePath[r])
          /\ exitCode' = [exitCode EXCEPT ![r] = code]
          /\ result' = [result EXCEPT ![r] =
                          IF Parses(code, output[r])
                          THEN JSONparse(jsonMatch(output[r]), members) ELSE NoResult]
          /\ Respond(r, CloseResponse(code, output[r], error[r], members))
          \* res.json ends the exchange, whether or not the client is there
          /\ connected' = [connected EXCEPT ![r] = FALSE]
          /\ UNCHANGED serverUp
     ELSE \* fs.unlinkSync throws ENOENT inside the event callback
          /\ serverUp' = FALSE
          /\ connected' = [q \in Reqs |-> FALSE]
          /\ UNCHANGED <<files, exitCode, result, res>>

\* POST /api/upload: uploadMiddleware, then uploadImage; stored tells whether
\* the storage service accepted the object
uploadImage(r, file, stored) ==
  /\ serverUp
  /\ UNCHANGED <<apiVars, clientVars>>
  /\ NextArrival(r)
  /\ req' = [req EXCEPT ![r] = [route |-> "upload", file |-> FileInfo(file)]]
  /\ pc' = [pc EXCEPT ![r] = "done"]
  /\ UNCHANGED <<models, now, files, serverUp, imagePath, output, error, exitCode,
                 result, spawned, io, connected>>
  /\ IF file = NoFile
     THEN /\ handlerRan' = [handlerRan EXCEPT ![r] = TRUE]
          /\ Respond(r, Json(400, Failure(<<"No file provided">>)))
          /\ UNCHANGED <<bucket, storageCalls>>
     ELSE IF ~IsImage(file.mimetype) \/ file.size > UploadFileSizeLimit
     THEN /\ Respond(r, Html(500))
          /\ UNCHANGED <<bucket, handlerRan, storageCalls>>
     ELSE /\ handlerRan' = [handlerRan EXCEPT ![r] = TRUE]
          /\ storageCalls' = [storageCalls EXCEPT ![r] = @ + 1]
          /\ IF stored
             THEN /\ bucket' = bucket \cup {<<"roosters", r, extname(file.originalname)>>}
                  /\ Respond(r, Json(200, [EmptyBody EXCEPT !.success = JsTrue,
                                             !.url = "publicUrl"]))
             ELSE /\ Respond(r, Json(500, Failure(<<"Failed to upload image">>)))
                  /\ UNCHANGED bucket

Next ==
  \/ \E r \in Reqs, file \in Uploads, t \in 0..NumReqs : PoseDetect(r, file, t)
  \/ \E r \in Reqs, tok \in OutTokens : ChildStdout(r, tok)
  \/ \E r \in Reqs, tok \in ErrTokens : ChildStderr(r, tok)
  \/ \E r \in Reqs : ChildError(r)
  \/ \E r \in Reqs, code \in {0, 1}, members \in Payloads \cup {EmptyObject} :
       ChildClose(r, code, members)
  \/ \E r \in Reqs, file \in Uploads, stored \in BOOLEAN : uploadImage(r, file, stored)

Spec == Init /\ [][Next]_vars

\* The same server with clients that may go away while they wait.  A
\* disconnect changes nothing the server reads, so it is left out of Spec;
\* here the children write whole lines and whole objects only.
DisconnectOutTokens == {TXT, OBJ}

NextDisconnect ==
  \/ \E r \in Reqs, file \in Uploads, t \in 0..NumReqs : PoseDetect(r, file, t)
  \/ \E r \in Reqs, tok \in DisconnectOutTokens : ChildStdout(r, tok)
  \/ \E r \in Reqs, tok \in ErrTokens : ChildStderr(r, tok)
  \/ \E r \in Reqs : ChildError(r)
  \/ \E r \in Reqs : ClientDisconnect(r)
  \/ \E r \in Reqs, code \in {0, 1}, members \in Payloads \cup {EmptyObject} :
       ChildClose(r, code, members)
  \/ \E r \in Reqs, file \in Uploads, stored \in BOOLEAN : uploadImage(r, file, stored)

SpecDisconnect == Init /\ [][NextDisconnect]_vars

\* ------------------------------------------------ the data API: handlers
\* a route behind requireAuth: the middleware's 401, or the handler's work
Guarded(auth, handler) ==
  IF requireAuth(auth) # PassOn
  THEN /\ apiRes' = requireAuth(auth)
       /\ apiHandlerRan' = FALSE
       /\ storageError' = FALSE
       /\ UNCHANGED <<roosters, scans, reports, nextId>>
  ELSE /\ apiHandlerRan' = TRUE
       /\ handler

\* user A is the one who registers roosters and scans; user B is the other
\* user, who reads, changes and deletes them and writes reports on them
Registers(auth) == Caller(auth) = "A"

\* GET /api/roosters
getRoosters(auth, dbError) ==
  /\ apiReq' = Request("GET /api/roosters", auth, 0, NoBody)
  /\ apiHandlerRan' = TRUE
  /\ storageError' = dbError
  /\ apiRes' = IF dbError THEN ApiError(500, <<"Failed to fetch roosters">>)
               ELSE LET ids == LatestFirst(OwnedBy(roosters, getUserIdFromAuth(auth)))
                    IN ApiData(200, [i \in 1..Len(ids) |-> mappedRooster(roosters[ids[i]])])
  /\ UNCHANGED <<roosters, scans, reports, nextId, poseVars, clientVars>>

\* POST /api/roosters
createRooster(auth, body, dbError) ==
  /\ (requireAuth(auth) = PassOn /\ ~NameMissing(body) /\ ~dbError)
       => (nextId <= MaxRows /\ Registers(auth))
  /\ apiReq' = Request("POST /api/roosters", auth, 0, body)
  /\ UNCHANGED <<scans, reports, poseVars, clientVars>>
  /\ Guarded(auth,
       IF NameMissing(body)
       THEN /\ apiRes' = ApiError(400, <<"Name is required">>)
            /\ storageError' = FALSE
            /\ UNCHANGED <<roosters, nextId>>
       ELSE IF dbError
       THEN /\ apiRes' = ApiError(500, <<"Failed to create rooster">>)
            /\ storageError' = TRUE
            /\ UNCHANGED <<roosters, nextId>>
       ELSE /\ roosters' = Insert(roosters, roosterData(nextId, auth, body))
            /\ storageError' = FALSE
            /\ nextId' = nextId + 1
            /\ apiRes' = ApiData(201, <<mappedRooster(roosterData(nextId, auth, body))>>))

\* PUT /api/roosters/:id
updateRooster(auth, id, body, dbError) ==
  /\ apiReq' = Request("PUT /api/roosters/:id", auth, id, body)
  /\ UNCHANGED <<scans, reports, nextId, poseVars, clientVars>>
  /\ Guarded(auth,
       IF dbError
       THEN /\ apiRes' = ApiError(500, <<"Failed to update rooster">>)
            /\ storageError' = TRUE
            /\ UNCHANGED roosters
       ELSE IF id \notin OwnedBy(roosters, getUserIdFromAuth(auth))
       THEN \* .single() finds no row: PGRST116
            /\ apiRes' = ApiError(404, <<"Rooster not found">>)
            /\ storageError' = FALSE
            /\ UNCHANGED roosters
       ELSE /\ roosters' = [roosters EXCEPT ![id] = updateData(@, body)]
            /\ storageError' = FALSE
            /\ apiRes' = ApiData(200, <<rawRooster(updateData(roosters[id], body))>>))

\* the reports that refer to a rooster
ReportsOf(id) == {i \in DOMAIN reports : reports[i].rooster_id = id}

\* DELETE /api/roosters/:id; cascade tells what the foreign key of
\* health_reports does when a rooster with reports goes: take the reports
\* along, or refuse the delete
deleteRooster(auth, id, cascade, dbError) ==
  \* the choice is one only where a report refers to the rooster
  /\ cascade \/ ReportsOf(id) # {}
  /\ apiReq' = Request("DELETE /api/roosters/:id", auth, id, NoBody)
  /\ UNCHANGED <<scans, nextId, poseVars, clientVars>>
  /\ Guarded(auth,
       LET ids == {id} \cap OwnedBy(roosters, getUserIdFromAuth(auth))
       IN IF dbError \/ (ids # {} /\ ReportsOf(id) # {} /\ ~cascade)
          THEN /\ apiRes' = ApiError(500, <<"Failed to delete rooster">>)
               /\ storageError' = TRUE
               /\ UNCHANGED <<roosters, reports>>
          ELSE /\ roosters' = Delete(roosters, ids)
               /\ storageError' = FALSE
               /\ reports' = IF ids # {} THEN Delete(reports, ReportsOf(id)) ELSE reports
               /\ apiRes' = ApiData(200, <<[deleted |-> JsTrue]>>))

\* GET /api/scans
getScans(auth, dbError) ==
  /\ apiReq' = Request("GET /api/scans", auth, 0, NoBody)
  /\ apiHandlerRan' = TRUE
  /\ storageError' = dbError
  /\ apiRes' = IF dbError THEN ApiError(500, <<"Failed to fetch scans">>)
               ELSE LET ids == LatestFirst(OwnedBy(scans, getUserIdFromAuth(auth)))
                    IN ApiData(200, [i \in 1..Len(ids) |-> listedScan(scans[ids[i]])])
  /\ UNCHANGED <<roosters, scans, reports, nextId, poseVars, clientVars>>

\* GET /api/scans/:id
getScanById(auth, id, dbError) ==
  /\ apiReq' = Request("GET /api/scans/:id", auth, id, NoBody)
  /\ apiHandlerRan' = TRUE
  /\ storageError' = dbError
  /\ apiRes' = IF dbError THEN ApiError(500, <<"Failed to get scan">>)
               ELSE IF id \notin OwnedBy(scans, getUserIdFromAuth(auth))
               THEN ApiError(404, <<"Scan not found">>)
               ELSE ApiData(200, <<mappedScan(scans[id])>>)
  /\ UNCHANGED <<roosters, scans, reports, nextId, poseVars, clientVars>>

\* POST /api/scans
createScan(auth, body, dbError) ==
  /\ (requireAuth(auth) = PassOn /\ body.results.present /\ ~dbError)
       => (nextId <= MaxRows /\ Registers(auth))
  /\ apiReq' = Request("POST /api/scans", auth, 0, body)
  /\ UNCHANGED <<roosters, reports, poseVars, clientVars>>
  /\ Guarded(auth,
       IF ~body.results.present
       THEN /\ apiRes' = ApiError(400, <<"Scan results are required">>)
            /\ storageError' = FALSE
            /\ UNCHANGED <<scans, nextId>>
       ELSE IF dbError
       THEN /\ apiRes' = ApiError(500, <<"Failed to create scan">>)
            /\ storageError' = TRUE
            /\ UNCHANGED <<scans, nextId>>
       ELSE /\ scans' = Insert(scans, scanData(nextId, auth, body))
            /\ storageError' = FALSE
            /\ nextId' = nextId + 1
            /\ apiRes' = ApiData(201, <<mappedScan(scanData(nextId, auth, body))>>))

\* GET /api/reports: the reports joined to their scan and rooster
getReports(auth, dbError) ==
  /\ apiReq' = Request("GET /api/reports", auth, 0, NoBody)
  /\ apiHandlerRan' = TRUE
  /\ storageError' = dbError
  /\ apiRes' = IF dbError THEN ApiError(500, <<"Failed to fetch reports">>)
               ELSE LET ids == LatestFirst({i \in OwnedBy(reports, getUserIdFromAuth(auth)) :
                                              /\ reports[i].scan_id \in DOMAIN scans
                                              /\ reports[i].rooster_id \in DOMAIN roosters})
                    IN ApiData(200, [i \in 1..Len(ids) |-> mappedReport(reports[ids[i]])])
  /\ UNCHANGED <<roosters, scans, reports, nextId, poseVars, clientVars>>

\* the reply of createReport before anything is inserted, PassOn if none
reportRefusal(auth, body, scanError) ==
  IF body.scanId = 0 \/ body.roosterId = 0 \/ ~TruthyText(trim(body.title))
  THEN ApiError(400, <<"scanId, roosterId, and title are required">>)
  ELSE IF scanError \/ body.scanId \notin OwnedBy(scans, getUserIdFromAuth(auth))
  THEN ApiError(404, <<"Scan not found or access denied">>)
  ELSE PassOn

\* health_reports is joined to scans and roosters over its foreign keys: the
\* database takes a report only if the rows it refers to exist
ForeignKeysHold(body) == body.scanId \in DOMAIN scans /\ body.roosterId \in DOMAIN roosters

\* POST /api/reports: scanError and dbError are the failures of the scan
\* lookup and of the insert
createReport(auth, body, scanError, dbError) ==
  /\ (requireAuth(auth) = PassOn /\ reportRefusal(auth, body, scanError) = PassOn
        /\ ~dbError /\ ForeignKeysHold(body)) => nextId <= MaxRows
  /\ apiReq' = Request("POST /api/reports", auth, 0, body)
  /\ UNCHANGED <<roosters, scans, poseVars, clientVars>>
  /\ Guarded(auth,
       IF reportRefusal(auth, body, scanError) # PassOn
       THEN /\ apiRes' = reportRefusal(auth, body, scanError)
            \* the lookup is made, and fails, once the body is found valid
            /\ storageError' = (scanError /\ reportRefusal(auth, body, FALSE).status # 400)
            /\ UNCHANGED <<reports, nextId>>
       ELSE IF dbError \/ ~ForeignKeysHold(body)
       THEN /\ apiRes' = ApiError(500, <<"Failed to create report">>)
            /\ storageError' = TRUE
            /\ UNCHANGED <<reports, nextId>>
       ELSE /\ reports' = Insert(reports, reportData(nextId, auth, body, scans[body.scanId]))
            /\ storageError' = FALSE
            /\ nextId' = nextId + 1
            /\ apiRes' = ApiData(201,
                 <<mappedReport(reportData(nextId, auth, body, scans[body.scanId]))>>))

\* the bodies sent along with a header the middleware turns away
RefusedRooster == CHOOSE b \in RoosterBodies : ~NameMissing(b) /\ b.ageMonths = Num0
RefusedScan == CHOOSE b \in ScanBodies : b.results.present /\ b.injuries = <<>>
RefusedReport == [scanId |-> 1, roosterId |-> 1, title |-> <<"Checkup">>]

\* The requests: every caller and body with the database at work, the
\* refused headers with one body per route, and one request per route that
\* meets a failing database.
NextApi ==
  \/ \E auth \in ReadAuth : getRoosters(auth, FALSE)
  \/ getRoosters(NoAuth, TRUE)
  \/ \E auth \in BadAuth : createRooster(auth, RefusedRooster, FALSE)
  \/ \E auth \in GoodAuth, body \in RoosterBodies : createRooster(auth, body, FALSE)
  \/ createRooster(Bearer("A"), RefusedRooster, TRUE)
  \/ \E auth \in BadAuth, body \in UpdateBodies : updateRooster(auth, 1, body, FALSE)
  \/ \E auth \in GoodAuth, id \in Ids, body \in UpdateBodies :
       updateRooster(auth, id, body, FALSE)
  \/ \E body \in UpdateBodies : updateRooster(Bearer("A"), 1, body, TRUE)
  \/ \E auth \in BadAuth : deleteRooster(auth, 1, FALSE, FALSE)
  \/ \E auth \in GoodAuth, id \in Ids, cascade \in BOOLEAN :
       deleteRooster(auth, id, cascade, FALSE)
  \/ deleteRooster(Bearer("A"), 1, FALSE, TRUE)
  \/ \E auth \in ReadAuth : getScans(auth, FALSE)
  \/ getScans(NoAuth, TRUE)
  \/ \E auth \in GoodAuth, id \in Ids : getScanById(auth, id, FALSE)
  \/ getScanById(NoAuth, 1, TRUE)
  \/ \E auth \in BadAuth : createScan(auth, RefusedScan, FALSE)
  \/ \E auth \in GoodAuth, body \in ScanBodies : createScan(auth, body, FALSE)
  \/ createScan(Bearer("A"), RefusedScan, TRUE)
  \/ \E auth \in ReadAuth : getReports(auth, FALSE)
  \/ getReports(NoAuth, TRUE)
  \/ \E auth \in BadAuth : createReport(auth, RefusedReport, FALSE, FALSE)
  \/ \E auth \in GoodAuth, body \in ReportBodies : createReport(auth, body, FALSE, FALSE)
  \/ \E failure \in {"lookup", "insert"} :
       createReport(Bearer("A"), RefusedReport, failure = "lookup", failure = "insert")

\* the data API does not read the model artifacts
InitApi == Init /\ models = {"pose", "bumblefoot", "script"}

SpecApi == InitApi /\ [][NextApi]_vars

\* ------------------------------------------------------- the Scan page
\* the page after captureAndAnalyzeFrame, called on page s by a closure that
\* sees isAnalyzing as seen; ctx tells whether getContext('2d') gave a
\* context. The function runs to its end in one task: setIsAnalyzing(true),
\* canvas.toBlob registers its callback and returns, and the finally block
\* calls setIsAnalyzing(false).
captureAndAnalyzeFrame(s, seen, ctx) ==
  IF s.page # "scan" \/ seen
  THEN \* videoRef.current is null, or the guard returns
       s
  ELSE IF ctx
  THEN [s EXCEPT !.isAnalyzing = FALSE, !.blobs = @ + 1, !.frames = @ + 1]
  ELSE [s EXCEPT !.isAnalyzing = FALSE]

\* handleCameraToggle; success tells whether the camera manager's call
\* (startStream, or stopStream and stopRecording) went through
handleCameraToggle(success) ==
  /\ scanPage.page = "scan"
  /\ UNCHANGED <<poseVars, apiVars, camera>>
  /\ scanPage' =
       IF scanPage.cameraOn
       THEN \* the timer is cleared before the camera is stopped
            IF success
            THEN [scanPage EXCEPT !.analysisInterval = FALSE,
                                  !.cameraOn = FALSE,
                                  !.liveResults = FALSE,
                                  !.frameCount = 0,
                                  !.isAnalyzing = FALSE]
            ELSE [scanPage EXCEPT !.analysisInterval = FALSE]
       ELSE IF success
            THEN \* setInterval keeps the captureAndAnalyzeFrame of this render
                 [scanPage EXCEPT !.cameraOn = TRUE,
                                  !.analysisInterval = TRUE,
                                  !.tickSees = scanPage.isAnalyzing]
            ELSE scanPage

\* the 2-second timer fires
IntervalTick(ctx) ==
  /\ scanPage.analysisInterval
  /\ (scanPage.page = "scan" /\ ~scanPage.tickSees /\ ctx) => scanPage.frames < MaxFrames
  /\ scanPage' = captureAndAnalyzeFrame(scanPage, scanPage.tickSees, ctx)
  /\ UNCHANGED <<poseVars, apiVars, camera>>

\* capture, up to its save: stale tells whether the latest analysis is more
\* than 5 seconds old
capture(stale, ctx) ==
  /\ scanPage.page = "scan"
  /\ scanPage.cameraOn
  /\ LET analysed == IF ~scanPage.liveResults \/ stale
                     THEN captureAndAnalyzeFrame(scanPage, scanPage.isAnalyzing, ctx)
                     ELSE scanPage
     IN /\ analysed.frames <= MaxFrames
        /\ scanPage' = [analysed EXCEPT !.saving = TRUE]
  /\ UNCHANGED <<poseVars, apiVars, camera>>

\* capture after api.createScan: navigate to the results page, or a toast
captureSaved(ok) ==
  /\ scanPage.saving
  /\ scanPage' = [scanPage EXCEPT !.saving = FALSE,
                                  !.page = IF ok THEN "results" ELSE @]
  /\ UNCHANGED <<poseVars, apiVars, camera>>

\* the callback of canvas.toBlob: with a blob, fetch('/api/pose/detect')
toBlobCallback(blob) ==
  /\ scanPage.blobs > 0
  /\ scanPage' = [scanPage EXCEPT !.blobs = @ - 1,
                                  !.inFlight = IF blob THEN @ + 1 ELSE @]
  /\ UNCHANGED <<poseVars, apiVars, camera>>

\* the fetch settles: a response that is ok, one that is not, or a rejection
fetchSettles(outcome) ==
  /\ scanPage.inFlight > 0
  /\ scanPage' =
       IF outcome = "ok" /\ scanPage.page = "scan"
       THEN [scanPage EXCEPT !.inFlight = @ - 1,
                             !.liveResults = TRUE,
                             !.frameCount = @ + 1]
       ELSE [scanPage EXCEPT !.inFlight = @ - 1]
  /\ UNCHANGED <<poseVars, apiVars, camera>>

NextScan ==
  \/ \E success \in BOOLEAN : handleCameraToggle(success)
  \/ \E ctx \in BOOLEAN : IntervalTick(ctx)
  \/ \E stale, ctx \in BOOLEAN : capture(stale, ctx)
  \/ \E ok \in BOOLEAN : captureSaved(ok)
  \/ \E blob \in BOOLEAN : toBlobCallback(blob)
  \/ \E outcome \in {"ok", "not ok", "rejected"} : fetchSettles(outcome)

\* the page is opened against the server as deployed
InitScan == Init /\ models = {"pose", "bumblefoot", "script"}

SpecScan == InitScan /\ [][NextScan]_vars

\* -------------------------------------------------- the CameraManager
\* the fields of manager c after the body of stopStream
stopped(c) ==
  [c EXCEPT !.liveTracks = @ \ {c.stream},
            !.stream = 0,
            !.videoElement = FALSE,
            !.isActive = FALSE]

\* startStream up to its await of getUserMedia; element tells whether the
\* videoElement argument is an element or null
startStream(element) ==
  /\ camera.acquired + Len(camera.pending) < MaxStreams
  /\ camera' = [(IF camera.isActive THEN stopped(camera) ELSE camera)
                  EXCEPT !.pending = Append(@, element)]
  /\ UNCHANGED <<poseVars, apiVars, scanPage>>

\* getUserMedia settles and the oldest waiting startStream goes on: the
\* stream is stored first; attaching it to a null element throws, and the
\* catch block returns false
getUserMediaSettles(granted) ==
  /\ camera.pending # <<>>
  /\ camera' =
       IF granted
       THEN [camera EXCEPT !.pending = Tail(@),
                           !.acquired = @ + 1,
                           !.stream = camera.acquired + 1,
                           !.liveTracks = @ \cup {camera.acquired + 1},
                           !.videoElement = Head(camera.pending),
                           !.isActive = IF Head(camera.pending) THEN TRUE ELSE @]
       ELSE [camera EXCEPT !.pending = Tail(@)]
  /\ UNCHANGED <<poseVars, apiVars, scanPage>>

\* stopStream
stopStream ==
  /\ camera' = stopped(camera)
  /\ UNCHANGED <<poseVars, apiVars, scanPage>>

\* switchCamera up to the await of getUserMedia: stopStream has cleared
\* this.videoElement when it is read as the argument of startStream
switchCamera ==
  /\ camera.acquired + Len(camera.pending) < MaxStreams
  /\ camera' = IF camera.videoElement /\ camera.isActive
               THEN [stopped(camera) EXCEPT !.pending = Append(@, FALSE)]
               ELSE camera
  /\ UNCHANGED <<poseVars, apiVars, scanPage>>

\* dispose
dispose ==
  /\ camera' = [stopped(camera) EXCEPT !.disposed = TRUE]
  /\ UNCHANGED <<poseVars, apiVars, scanPage>>

NextCamera ==
  \/ startStream(TRUE)
  \/ \E granted \in BOOLEAN : getUserMediaSettles(granted)
  \/ stopStream
  \/ switchCamera
  \/ dispose

SpecCamera == InitScan /\ [][NextCamera]_vars

TypeOK ==
  /\ models \subseteq {"pose", "bumblefoot", "script"}
  /\ now \in 0..NumReqs
  /\ serverUp \in BOOLEAN
  /\ \A r \in Reqs : pc[r] \in {"idle", "running", "done"}
  /\ \A r \in Reqs : Len(res[r]) <= 1

\* ------------------------------------------------------------ properties
Answered(r) == Len(res[r]) > 0
Resp(r) == res[r][1]

\* sub occurs in text
Contains(text, sub) ==
  \E i \in 0..(Len(text) - Len(sub)) : SubSeq(text, i + 1, i + Len(sub)) = sub

\* the request's close callback runs to its response in this step
Closes(r) == pc[r] = "running" /\ exitCode'[r] # -1

\* the text holds a "{" with a "}" after it
BraceDelimited(out) ==
  \E i, j \in 1..Len(out) : /\ i <= j
                            /\ out[i] \in {LB, OBJ}
                            /\ out[j] \in {RB, OBJ}
                            /\ (i = j => out[i] = OBJ)

\* the places where a JSON object starts in the text, and the first object
ObjectAt(out, i) ==
  IF out[i] = OBJ THEN <<OBJ>>
  ELSE IF i < Len(out) /\ out[i] = LB /\ out[i + 1] = RB THEN <<LB, RB>>
  ELSE <<>>
HasObject(out) == \E i \in 1..Len(out) : ObjectAt(out, i) # <<>>
FirstObject(out) ==
  ObjectAt(out, CHOOSE i \in 1..Len(out) :
                  /\ ObjectAt(out, i) # <<>>
                  /\ \A k \in 1..(i - 1) : ObjectAt(out, k) = <<>>)
ObjectValues(obj) == IF obj = <<OBJ>> THEN Payloads ELSE {EmptyObject}

\* a pose request whose upload was stored and handed to the handler
Accepted(r) == req[r].route = "pose" /\ imagePath[r] # NoPath

\* C1: every pose request that stored its upload in a temporary file has
\* removed that file once the request is answered, whatever branch it took.
C1_TempFileRemovedOnEveryBranch ==
  \A r \in Reqs : (Accepted(r) /\ Answered(r)) => imagePath[r] \notin DOMAIN files

C4_DegradedWhenEitherModelAbsent ==
  \A r \in Reqs :
    (Accepted(r) /\ ("pose" \notin models \/ "bumblefoot" \notin models)) =>
       /\ Answered(r)
       /\ Resp(r).json
       /\ Resp(r).body.success = JsTrue
       /\ Len(Resp(r).body.keypoints) = 3
       /\ spawned[r] = 0

\* C5: with both model artifacts absent every accepted pose request gets the
\* same fixed payload: success, the keypoints beak_tip, eye, comb_top and the
\* three recommendation strings, whatever the image.
C5_BothAbsentFixedPayload ==
  ("pose" \notin models /\ "bumblefoot" \notin models) =>
     /\ \A r \in Reqs :
          Accepted(r) =>
            /\ Len(res[r]) = 1
            /\ Resp(r).status = 200
            /\ Resp(r).body.success = JsTrue
            /\ [i \in 1..Len(Resp(r).body.keypoints) |-> Resp(r).body.keypoints[i].name]
                 = <<"beak_tip", "eye", "comb_top">>
            /\ Len(Resp(r).body.recommendations) = 3
     /\ \A r1, r2 \in Reqs : (Accepted(r1) /\ Accepted(r2)) => res[r1] = res[r2]

C5_Witness ==
  /\ "pose" \notin models /\ "bumblefoot" \notin models
  /\ \E r1, r2 \in Reqs : /\ Accepted(r1) /\ Accepted(r2)
                          /\ imagePath[r1] \in DOMAIN files
                          /\ imagePath[r2] \in DOMAIN files
                          /\ files[imagePath[r1]] # files[imagePath[r2]]
                          /\ Answered(r1) /\ Answered(r2)

\* C6: every failure outcome of a pose request reaches the caller as a JSON
\* object with success=false and a string error.
C6_FailuresAreStructured ==
  \A r \in Reqs :
    (req[r].route = "pose" /\ Answered(r) /\ Resp(r).status >= 400) =>
       /\ Resp(r).json
       /\ Resp(r).body.success = JsFalse
       /\ Resp(r).body.error # undefinedText

\* C7: on exit code 0, when stdout is a JSON object between texts that may
\* hold braces or further objects, the response is built from the first
\* object.
C7_ExtractsFirstObject ==
  [][\A r \in Reqs :
       (Closes(r) /\ exitCode'[r] = 0 /\ HasObject(output[r])) =>
          \E J \in ObjectValues(FirstObject(output[r])) :
             res'[r] = <<ResultResponse(J)>>]_vars

\* C8: in a successful analysis response risk_level is 'high' whenever the
\* parsed health_assessment is not 'healthy', and 'low' exactly when it is.
C8_RiskHighUnlessHealthy ==
  \A r \in Reqs :
    (exitCode[r] = 0 /\ Answered(r) /\ Resp(r).body.success = JsTrue) =>
       /\ result[r].health_assessment # "healthy" => Resp(r).body.risk_level = "high"
       /\ result[r].health_assessment = "healthy" <=> Resp(r).body.risk_level = "low"

\* C9 as stated: a subprocess result with success=false is answered 500 with
\* its own error and stage, the defaults standing in only for omitted ones.
C9_DefaultsOnlyWhenOmitted ==
  \A r \in Reqs :
    (Answered(r) /\ result[r].success = JsFalse) =>
       /\ Resp(r).status = 500
       /\ Resp(r).body.success = JsFalse
       /\ Resp(r).body.error = IF result[r].error = undefinedText
                               THEN <<"Sequential analysis failed">> ELSE result[r].error
       /\ Resp(r).body.stage = IF result[r].stage = undefinedText
                               THEN <<"unknown">> ELSE result[r].stage

\* C9 amended: a subprocess result with success=false is answered 500 with
\* its own error and stage, the defaults standing in for the ones that are
\* omitted or empty.
C9_DefaultsWhenOmittedOrEmpty ==
  \A r \in Reqs :
    (Answered(r) /\ result[r].success = JsFalse) =>
       /\ Resp(r).status = 500
       /\ Resp(r).json
       /\ Resp(r).body.success = JsFalse
       /\ Resp(r).body.error = IF result[r].error \in {undefinedText, <<>>}
                               THEN <<"Sequential analysis failed">> ELSE result[r].error
       /\ Resp(r).body.stage = IF result[r].stage \in {undefinedText, <<>>}
                               THEN <<"unknown">> ELSE result[r].stage

C9_Witness ==
  \E r \in Reqs : /\ Answered(r)
                  /\ result[r].success = JsFalse
                  /\ result[r].error = <<"model crashed">>
                  /\ result[r].stage = <<>>
                  /\ Resp(r).body.stage = <<"unknown">>

\* C10: an upload whose MIME type does not start with 'image/' is rejected
\* with an error by both routes before the handler runs: nothing is sent to
\* object storage, no temporary file is kept, no process is spawned.
C10_NonImageRejectedBeforeHandler ==
  [][\A r \in Reqs :
       (pc[r] = "idle" /\ pc'[r] # "idle" /\ req'[r].file # FileInfo(NoFile)
          /\ req'[r].file.mimetype[1] # "image") =>
          /\ pc'[r] = "done"
          /\ ~handlerRan'[r]
          /\ Len(res'[r]) = 1
          /\ res'[r][1].status >= 400
          /\ storageCalls'[r] = 0
          /\ bucket' = bucket
          /\ files' = files
          /\ imagePath'[r] = NoPath
          /\ spawned'[r] = 0]_vars

C10_Witness ==
  \E r1, r2 \in Reqs : /\ req[r1].route = "pose" /\ req[r2].route = "upload"
                       /\ req[r1].file.mimetype = <<"text", "plain">>
                       /\ req[r2].file.mimetype = <<"text", "plain">>
                       /\ Answered(r1) /\ Answered(r2)

\* C11: on the real-analysis path a response is sent only by the step in
\* which the child closes, so a request whose child never closes is never
\* answered; and a client that disconnects leaves the child running, its
\* request still to be answered by the close.
C11_AnsweredOnlyAtClose ==
  [][\A r \in Reqs :
       /\ (spawned'[r] > 0 /\ res'[r] # res[r]) => Closes(r)
       /\ (pc[r] = "running" /\ connected[r] /\ ~connected'[r]
             /\ exitCode'[r] = -1 /\ serverUp') =>
            /\ pc'[r] = "running"
            /\ output'[r] = output[r] /\ error'[r] = error[r]
            /\ res'[r] = <<>>]_vars

C11_Witness ==
  \E r1, r2 \in Reqs : /\ pc[r1] = "running" /\ ~connected[r1] /\ res[r1] = <<>>
                       /\ spawned[r2] = 1 /\ exitCode[r2] = 0 /\ Answered(r2)

\* C12: a pose request has spawned exactly one process once it reached the
\* real analysis (upload stored, all three artifacts present) and none
\* otherwise; no path, failing or not, ever starts a second one.
C12_OneProcessPerRequest ==
  \A r \in Reqs :
    /\ spawned[r] <= 1
    /\ pc[r] # "idle" =>
         (spawned[r] = 1 <=> (Accepted(r) /\ models = {"pose", "bumblefoot", "script"}))

C12_Witness ==
  \E r1, r2 \in Reqs : /\ spawned[r1] = 1 /\ Answered(r1) /\ Resp(r1).status = 500
                       /\ spawned[r2] = 0 /\ Answered(r2) /\ req[r2].route = "pose"

\* C13: requests in flight never share a temporary file: every request whose
\* child is running still has its own file, distinct from that of every
\* other running request, so no cleanup takes a file another one needs and
\* the server stays up to answer each of them.
C13_RequestsAreIsolated ==
  /\ \A r \in Reqs : pc[r] = "running" => imagePath[r] \in DOMAIN files
  /\ \A r1, r2 \in Reqs :
       (r1 # r2 /\ pc[r1] = "running" /\ pc[r2] = "running") =>
          imagePath[r1] # imagePath[r2]

\* ------------------------------------------------ properties of the data API
\* the text is empty or white space only
BlankText(t) == \A i \in 1..Len(t) : t[i] = SP

\* the header carries a bearer token that verifies
Authenticated(auth) == Len(auth) = 3 /\ auth[1] = "Bearer" /\ auth[3] = "valid"

\* the tables a list route reads
ListedTable(route) ==
  IF route = "GET /api/roosters" THEN roosters
  ELSE IF route = "GET /api/scans" THEN scans ELSE reports

\* C14: POST /api/roosters with a verifiable token and a name that is
\* missing, empty or white space only is answered 400 with success=false and
\* an error text, and the roosters table is left as it was.
C14_BlankNameRejected ==
  [][(/\ apiReq'.route = "POST /api/roosters"
      /\ Authenticated(apiReq'.auth)
      /\ (apiReq'.body.name = undefinedText \/ BlankText(apiReq'.body.name))) =>
        /\ apiRes'.status = 400
        /\ apiRes'.success = JsFalse
        /\ apiRes'.error # undefinedText
        /\ roosters' = roosters
        /\ nextId' = nextId]_vars

C14_Witness ==
  /\ apiReq.route = "POST /api/roosters"
  /\ Authenticated(apiReq.auth)
  /\ apiReq.body.name = <<SP>>
  /\ apiRes.status = 400
  /\ apiHandlerRan

\* C15: a POST /api/reports by a user with a title, the id of a rooster and
\* the scanId of a scan another user created is answered 404 and creates no
\* report.
C15_ForeignScanRefused ==
  [][(/\ apiReq'.route = "POST /api/reports"
      /\ Authenticated(apiReq'.auth)
      /\ apiReq'.body.roosterId \in DOMAIN roosters
      /\ ~BlankText(apiReq'.body.title)
      /\ apiReq'.body.scanId \in DOMAIN scans
      /\ scans[apiReq'.body.scanId].owner # Caller(apiReq'.auth)) =>
        /\ apiRes'.status = 404
        /\ reports' = reports]_vars

\* C16: a list route returns to a user only rows that user created, and a
\* PUT or DELETE on a rooster another user created changes nothing.
C16_RowsOnlyForTheirOwner ==
  [][/\ (/\ apiReq'.route \in {"GET /api/roosters", "GET /api/scans", "GET /api/reports"}
         /\ Authenticated(apiReq'.auth)
         /\ apiRes'.status = 200) =>
           \A i \in 1..Len(apiRes'.data) :
              ListedTable(apiReq'.route)[apiRes'.data[i].id].owner = Caller(apiReq'.auth)
     /\ (/\ apiReq'.route \in {"PUT /api/roosters/:id", "DELETE /api/roosters/:id"}
         /\ Authenticated(apiReq'.auth)
         /\ apiReq'.id \in DOMAIN roosters
         /\ roosters[apiReq'.id].owner # Caller(apiReq'.auth)) =>
           roosters' = roosters]_vars

C18_SeverityBySevereThenConfidence ==
  (/\ apiReq.route \in {"GET /api/scans", "GET /api/scans/:id", "POST /api/scans"}
   /\ apiRes.status \in {200, 201}) =>
     \A i \in 1..Len(apiRes.data) :
        LET scan == apiRes.data[i]
            severe == \E k \in 1..Len(scan.injuryDetections) :
                         scan.injuryDetections[k].severity = "severe"
        IN scan.severity \in IF severe THEN {"high"}
                              ELSE IF scan.analysisConfidence > 80 THEN {"medium", "high"}
                              ELSE IF scan.analysisConfidence > 50 THEN {"medium"}
                              ELSE {"low"}

\* C19: the rooster returned by an accepted POST /api/roosters has the
\* submitted value in every field of the request, and GET /api/roosters
\* returns the same object for the row.
C19_RoosterRoundTrip ==
  (apiReq.route = "POST /api/roosters" /\ apiRes.status = 201) =>
     LET rooster == apiRes.data[1]
     IN /\ rooster.name = apiReq.body.name
        /\ rooster.breed = apiReq.body.breed
        /\ rooster.ageMonths = apiReq.body.ageMonths
        /\ rooster.status = apiReq.body.status
        /\ mappedRooster(roosters[rooster.id]) = rooster

\* C20: GET /api/scans/:id, PUT /api/roosters/:id and DELETE /api/roosters/:id
\* addressed to an id whose row is absent or was created by another user are
\* answered 404 and change no row (the request being authenticated where
\* the route asks for it, and the database at work).
C20_AbsentOrForeignIs404 ==
  [][/\ (/\ apiReq'.route = "GET /api/scans/:id"
         /\ Authenticated(apiReq'.auth)
         /\ apiRes'.status # 500
         /\ (apiReq'.id \notin DOMAIN scans
               \/ scans[apiReq'.id].owner # Caller(apiReq'.auth))) =>
           apiRes'.status = 404
     /\ (/\ apiReq'.route \in {"PUT /api/roosters/:id", "DELETE /api/roosters/:id"}
         /\ Authenticated(apiReq'.auth)
         /\ apiRes'.status # 500
         /\ (apiReq'.id \notin DOMAIN roosters
               \/ roosters[apiReq'.id].owner # Caller(apiReq'.auth))) =>
           /\ apiRes'.status = 404
           /\ roosters' = roosters]_vars

\* the fixed message a route gives with its 500
GenericMessage(route) ==
  CASE route = "GET /api/roosters" -> <<"Failed to fetch roosters">>
    [] route = "POST /api/roosters" -> <<"Failed to create rooster">>
    [] route = "PUT /api/roosters/:id" -> <<"Failed to update rooster">>
    [] route = "DELETE /api/roosters/:id" -> <<"Failed to delete rooster">>
    [] route = "GET /api/scans" -> <<"Failed to fetch scans">>
    [] route = "GET /api/scans/:id" -> <<"Failed to get scan">>
    [] route = "POST /api/scans" -> <<"Failed to create scan">>
    [] route = "GET /api/reports" -> <<"Failed to fetch reports">>
    [] OTHER -> <<"Failed to create report">>

\* C21: a request during which a database call failed with an error other
\* than "no row found" is answered 500 with the route's fixed message; a 404
\* is given only where no such error occurred.
C21_StorageErrorIs500 ==
  storageError => /\ apiRes.status = 500
                  /\ apiRes.success = JsFalse
                  /\ apiRes.error = GenericMessage(apiReq.route)

C23_CountsAreSnapshot ==
  [][/\ \A id \in DOMAIN reports' \ DOMAIN reports :
          LET row == reports'[id]
              dets == scans[row.scan_id].injury_detections
          IN /\ row.scan_id = apiReq'.body.scanId
             /\ row.total_injuries_detected = Len(dets)
             /\ row.high_priority_injuries =
                  Cardinality({k \in 1..Len(dets) : dets[k].severity = "severe"})
             /\ row.status = "draft"
     /\ \A id \in DOMAIN reports \cap DOMAIN reports' :
          /\ reports'[id].total_injuries_detected = reports[id].total_injuries_detected
          /\ reports'[id].high_priority_injuries = reports[id].high_priority_injuries
          /\ reports'[id].status = reports[id].status]_vars

\* a report on a scan with two entries, and a request after it
C23_Witness ==
  /\ 3 \in DOMAIN reports
  /\ reports[3].total_injuries_detected = 2
  /\ Len(scans[reports[3].scan_id].injury_detections) = 2
  /\ apiReq.route = "PUT /api/roosters/:id" /\ apiRes.status = 200

\* C24: every report refers to a scan that exists and was created by the
\* report's user, and to a rooster that exists and is that user's.
C24_ReportsReferToOwnRows ==
  \A id \in DOMAIN reports :
    LET row == reports[id]
    IN /\ row.scan_id \in DOMAIN scans
       /\ scans[row.scan_id].owner = row.owner
       /\ row.rooster_id \in DOMAIN roosters
       /\ roosters[row.rooster_id].owner = row.owner

\* C25: the rooster a PUT /api/roosters/:id returns is the object that
\* GET /api/roosters returns for the same row, in the camelCase shape.
C25_UpdateReturnsApiShape ==
  (apiReq.route = "PUT /api/roosters/:id" /\ apiRes.status = 200) =>
     /\ apiRes.data[1].shape = "camelCase"
     /\ apiRes.data[1] = mappedRooster(roosters[apiReq.id])

\* C26: a pose request is never sent a second response, and it has been sent
\* exactly one once it ended before the spawn or its child has closed.
C26_OneResponsePerRequest ==
  \A r \in Reqs :
    req[r].route = "pose" =>
       /\ Len(res[r]) <= 1
       /\ pc[r] = "done" => Len(res[r]) = 1

\* C27: the severity GET /api/scans gives for a scan row is the one
\* GET /api/scans/:id gives for it, which is the one the POST /api/scans
\* that created it returned.
C27_SeverityAgreesAcrossEndpoints ==
  (apiReq.route = "GET /api/scans" /\ apiRes.status = 200) =>
     \A i \in 1..Len(apiRes.data) :
        apiRes.data[i].severity = mappedScan(scans[apiRes.data[i].id]).severity

\* C28: no entry of a stored scan's injury_detections carries a severity;
\* so every report has high_priority_injuries 0 and GET /api/scans gives no
\* scan the severity 'high'.
C28_NoSeverityIsEverStored ==
  /\ \A id \in DOMAIN scans :
       \A k \in 1..Len(scans[id].injury_detections) :
          scans[id].injury_detections[k].severity = undefined
  /\ \A id \in DOMAIN reports : reports[id].high_priority_injuries = 0
  /\ (apiReq.route = "GET /api/scans" /\ apiRes.status = 200) =>
        \A i \in 1..Len(apiRes.data) : apiRes.data[i].severity # "high"

\* a scan with injuries has a report and is listed
C28_Witness ==
  /\ apiReq.route = "GET /api/scans" /\ apiRes.status = 200
  /\ \E i \in 1..Len(apiRes.data) :
        /\ Len(apiRes.data[i].injuryDetections) = 2
        /\ apiRes.data[i].severity = "medium"
        /\ \E id \in DOMAIN reports : /\ reports[id].scan_id = apiRes.data[i].id
                                       /\ reports[id].total_injuries_detected = 2

\* ---------------------------------------------- properties of the client
\* C29: the Scan page has at most one request to /api/pose/detect in flight,
\* and isAnalyzing is true for as long as one is.
C29_OneAnalysisInFlight ==
  /\ scanPage.inFlight <= 1
  /\ scanPage.inFlight > 0 => scanPage.isAnalyzing

\* C30: a CameraManager that is not active holds no stream, and every
\* stream it acquired has had its tracks stopped.
C30_InactiveHoldsNoStream ==
  ~camera.isActive => (camera.stream = 0 /\ camera.liveTracks = {})

====
